---------------------------- MODULE Spec2Model ----------------------------
(***************************************************************************)
(* Model of momentum_screener.py: the compound momentum screener.          *)
(*                                                                         *)
(* Numbers.  Prices are non-negative integers (whole currency units) or    *)
(* NaN.  A percentage return is kept as an exact fraction <<num, den>>     *)
(* with den > 0; <<0, 0>> is the float NaN.  A value rounded to two        *)
(* decimals (round(x, 2)) is an integer number of hundredths, so 150.0 is  *)
(* 15000.  Floating-point error of the order of 1e-13 is not modelled; the *)
(* price sets used below never put a sum on a rounding tie.                *)
(***************************************************************************)
EXTENDS Integers, Sequences, FiniteSets, TLC

\* ------------------------------------------------------------------ bounds
\* Number of distinct symbols of the small universe.
NumTickers == 3
\* Number of distinct symbols of the wide universe (more than the top 20).
WideTickers == 22
\* Longest price history the provider returns (rows).
MaxDays == 267

\* --------------------------------------------------------------- constants
DAYS_3M == 65
DAYS_6M == 130
DAYS_12M == 260
\* results[:20]
TOP_N == 20
\* str(e)[:60]
ERR_CAP == 60
\* the float NaN of a Close column: the one value with p # p in Python
NaN == -1

\* Python's None where a tuple is expected
None == <<>>
\* prev_ranks.get(ticker, None) finding nothing: ranks start at 1
NoRank == 0
\* a float NaN result
NanF == <<0, 0>>

Max(a, b) == IF a >= b THEN a ELSE b
Min(a, b) == IF a <= b THEN a ELSE b

\* d[key] = v on a dict d
With(d, key, v) == [f \in DOMAIN d \cup {key} |-> IF f = key THEN v ELSE d[f]]

\* A fraction in lowest terms.
RECURSIVE Gcd(_, _)
Gcd(a, b) == IF b = 0 THEN a ELSE Gcd(b, a % b)

Abs(a) == IF a < 0 THEN 0 - a ELSE a

Frac(num, den) == LET g == Gcd(Abs(num), den) IN <<num \div g, den \div g>>

\* ------------------------------------------------------------ the universe
\* The TICKERS literal for a universe of u symbols: (name, symbol) pairs in
\* listing order, followed by repeated symbols as in the source list (one of
\* them under another display name).
RawTickers(u) ==
    [k \in 1..u |-> <<10 * k, k>>]
        \o (IF u >= 2 THEN << <<10 * 2 + 1, 2>>, <<10, 1>> >> ELSE << <<10, 1>> >>)

\* Deduplicate while preserving order (first occurrence wins).
RECURSIVE DedupFrom(_, _, _)
DedupFrom(raw, seen, acc) ==
    IF raw = <<>> THEN acc
    ELSE LET item == Head(raw) IN
         IF item[2] \notin seen
         THEN DedupFrom(Tail(raw), seen \cup {item[2]}, Append(acc, item))
         ELSE DedupFrom(Tail(raw), seen, acc)

\* Mutant: the list is used as written.
DedupNone(raw) == raw

Dedup(raw) == DedupFrom(raw, {}, <<>>)

\* ------------------------------------------------------ the price provider
\* An answer of stock.history(): an exception with a message of msg
\* characters, or a frame of `rows` rows whose Close column is Close(a).
\* Close values: the row `rows` (latest) is `now`, the rows 65, 130 and 260
\* before it are p3, p6, p12, every other row is `fill`; with cyc the rows
\* cycle through 50, 100, 150, 200 instead; the rows in `nan` hold NaN.
Raise(len) ==
    [kind |-> "raise", msg |-> len, rows |-> 0, now |-> 0, p3 |-> 0, p6 |-> 0,
     p12 |-> 0, fill |-> 0, cyc |-> FALSE, nan |-> {}]

Frame(n, now, p3, p6, p12, fill, cyc, nan) ==
    [kind |-> "frame", msg |-> 0, rows |-> n, now |-> now, p3 |-> p3, p6 |-> p6,
     p12 |-> p12, fill |-> fill, cyc |-> cyc, nan |-> nan]

Flat(n, now, ref) == Frame(n, now, ref, ref, ref, ref, FALSE, {})

Cycle(n) == Frame(n, 0, 0, 0, 0, 0, TRUE, {})

Close(a) ==
    [k \in 1..a.rows |->
        IF k \in a.nan THEN NaN
        ELSE IF a.cyc THEN 50 * (1 + (k % 4))
        ELSE IF k = a.rows THEN a.now
        ELSE IF k = a.rows - DAYS_3M THEN a.p3
        ELSE IF k = a.rows - DAYS_6M THEN a.p6
        ELSE IF k = a.rows - DAYS_12M THEN a.p12
        ELSE a.fill]

Message(a) == [k \in 1..a.msg |-> k]

\* main's local hist before the first frame is assigned to it
Unbound == [Raise(0) EXCEPT !.kind = "unbound"]

\* hist["Close"].dropna()
dropna(close) == SelectSeq(close, LAMBDA p : p # NaN)

\* ------------------------------------------------------- compute_momentum
\* Mutant: the margin of 5 observations is left out.
TooShortNoMargin(n) == n < DAYS_12M

\* Mutant: the precondition is taken from the shortest window.
TooShortBy3M(n) == n < DAYS_3M + 5

\* n < DAYS_12M + 5
TooShort(n) == n < DAYS_12M + 5

\* Mutant: the reference is one observation late.
RefIdxOffByOne(n, days_back) == Max(0, n - days_back)

\* idx = max(0, n - 1 - days_back)
RefIdx(n, days_back) == Max(0, n - 1 - days_back)

\* prices.iloc[idx] for idx >= 0, prices.iloc[-1] for the last element
iloc(prices, idx) == IF idx < 0 THEN prices[Len(prices) + 1 + idx] ELSE prices[idx + 1]

\* p_past == 0 or p_past != p_past
BadPast(p_past) == p_past = 0 \/ p_past = NaN

\* Mutant: a window without a usable reference counts as a return of 0.
pct_returnZero(prices, price_now, days_back) ==
    LET p_past == iloc(prices, RefIdx(Len(prices), days_back))
    IN  IF BadPast(p_past) THEN <<0, 1>>
        ELSE IF price_now = NaN THEN NanF
        ELSE Frac((price_now - p_past) * 100, p_past)

\* ((price_now / p_past) - 1.0) * 100.0, as an exact fraction
pct_return(prices, price_now, days_back) ==
    LET n == Len(prices)
        idx == RefIdx(n, days_back)
        p_past == iloc(prices, idx)
    IN  IF BadPast(p_past) THEN None
        ELSE IF price_now = NaN THEN NanF
        ELSE Frac((price_now - p_past) * 100, p_past)

compute_momentum(prices) ==
    LET n == Len(prices) IN
    IF TooShort(n) THEN None
    ELSE LET price_now == iloc(prices, -1)
             m3 == pct_return(prices, price_now, DAYS_3M)
             m6 == pct_return(prices, price_now, DAYS_6M)
             m12 == pct_return(prices, price_now, DAYS_12M)
         IN  IF m3 = None \/ m6 = None \/ m12 = None THEN None
             ELSE <<m3, m6, m12>>

\* ---------------------------------------------------------------- rounding
\* x + y on fractions
AddF(x, y) == Frac(x[1] * y[2] + y[1] * x[2], x[2] * y[2])

\* round(x, 2) in hundredths, ties to even
Round2(x) ==
    LET num == x[1] * 100
        q == num \div x[2]
        r == num % x[2]
    IN  IF 2 * r < x[2] THEN q
        ELSE IF 2 * r > x[2] THEN q + 1
        ELSE IF q % 2 = 0 THEN q ELSE q + 1

\* ------------------------------------------------------------ rank history
\* A Python dict is the sequence of its <<key, value>> items in insertion
\* order, keys unique.
Keys(d) == {d[k][1] : k \in 1..Len(d)}

\* d[key] = v
DictSet(d, key, v) ==
    IF key \in Keys(d)
    THEN [k \in 1..Len(d) |-> IF d[k][1] = key THEN <<key, v>> ELSE d[k]]
    ELSE Append(d, <<key, v>>)

\* d.get(key, None)
Get(d, key) ==
    IF key \in Keys(d)
    THEN d[CHOOSE k \in 1..Len(d) : d[k][1] = key][2]
    ELSE NoRank

\* The content of PREV_RANKS_FILE: "missing", "corrupt" (not parseable as
\* JSON), or "json" with the members of the JSON object, <<name, value>>
\* pairs in the order of the text.
Missing == "missing"
Corrupt == "corrupt"

\* {r["ticker"]: r["rank"] for r in top20}
RECURSIVE RankDictFrom(_, _)
RankDictFrom(top, d) ==
    IF top = <<>> THEN d
    ELSE RankDictFrom(Tail(top), DictSet(d, Head(top).ticker, Head(top).rank))

RankDict(top) == RankDictFrom(top, <<>>)

\* json.dump(d, f): one member per item, in the dict's order
json_dump(d) == [k \in 1..Len(d) |-> <<d[k][1], d[k][2]>>]

\* json.load(f): the members become items, a repeated name keeps the value
\* of its last member
RECURSIVE json_load_from(_, _)
json_load_from(members, d) ==
    IF members = <<>> THEN d
    ELSE json_load_from(Tail(members), DictSet(d, Head(members)[1], Head(members)[2]))

json_load(members) == json_load_from(members, <<>>)

\* Mutant: the file is updated in place, old members are kept.
WriteJsonMerge(old, d) ==
    [kind |-> "json",
     obj |-> IF old.kind = "json"
             THEN SelectSeq(old.obj, LAMBDA m : m[1] \notin Keys(d)) \o json_dump(d)
             ELSE json_dump(d)]

\* open(PREV_RANKS_FILE, "w") and json.dump(d, f): the old content is
\* truncated away.
WriteJson(old, d) == [kind |-> "json", obj |-> json_dump(d)]

\* what save_prev_ranks(top20) leaves in the file that held `old`
save_prev_ranks(old, top) == WriteJson(old, RankDict(top))

\* load_prev_ranks(): {} when the file does not exist, the parsed object
\* when it parses; json.load raises on a corrupt file.
LoadRaises(f) == f.kind = Corrupt

load_prev_ranks(f) == IF f.kind = "json" THEN json_load(f.obj) ELSE <<>>

\* Mutant: the lookup reads the ranks this run saves.
AttachPrevAfterSave(top, prev) ==
    [k \in 1..Len(top) |-> With(top[k], "prev_rank", Get(RankDict(top), top[k].ticker))]

\* for r in top20: r["prev_rank"] = prev_ranks.get(r["ticker"], None)
AttachPrev(top, prev) ==
    [k \in 1..Len(top) |-> With(top[k], "prev_rank", Get(prev, top[k].ticker))]

\* ------------------------------------------------------------------ ranking
\* results.sort(key = compound_score, reverse = True): stable, so equal
\* scores keep their relative order.  One insertion step: r goes behind every
\* element whose score is >= its own.
RECURSIVE InsertDescUnstable(_, _)
\* Mutant: r goes in front of the elements with its own score.
InsertDescUnstable(sorted, r) ==
    IF sorted = <<>> THEN <<r>>
    ELSE IF Head(sorted).compound_score > r.compound_score
         THEN <<Head(sorted)>> \o InsertDescUnstable(Tail(sorted), r)
         ELSE <<r>> \o sorted

RECURSIVE InsertDesc(_, _)
InsertDesc(sorted, r) ==
    IF sorted = <<>> THEN <<r>>
    ELSE IF Head(sorted).compound_score >= r.compound_score
         THEN <<Head(sorted)>> \o InsertDesc(Tail(sorted), r)
         ELSE <<r>> \o sorted

RECURSIVE SortFrom(_, _)
SortFrom(rest, sorted) ==
    IF rest = <<>> THEN sorted
    ELSE SortFrom(Tail(rest), InsertDesc(sorted, Head(rest)))

SortDesc(rs) == SortFrom(rs, <<>>)

\* Mutant: equal scores share the rank of the first of them.
AssignRanksShared(rs) ==
    [k \in 1..Len(rs) |->
        With(rs[k], "rank",
             CHOOSE j \in 1..k :
                /\ rs[j].compound_score = rs[k].compound_score
                /\ \A h \in 1..(j - 1) : rs[h].compound_score # rs[k].compound_score)]

\* for i, r in enumerate(results): r["rank"] = i + 1
AssignRanks(rs) == [k \in 1..Len(rs) |-> With(rs[k], "rank", k)]

\* results[:20]
Top(rs) == SubSeq(rs, 1, Min(TOP_N, Len(rs)))

\* ------------------------------------------------------------------- state
VARIABLES
    TICKERS,     \* the deduplicated universe, a sequence of <<name, symbol>>
    file,        \* the content of PREV_RANKS_FILE
    market,      \* what the price provider can answer during this run
    pc,          \* where main() is
    i,           \* instruments screened so far in this run
    hist,        \* the frame the provider returned last (main's local)
    results,     \* main's results list
    skipped,     \* main's skipped list
    top20,       \* main's top20 list
    prev_ranks,  \* main's prev_ranks
    output,      \* the report written to OUTPUT_JSON by this run
    lastSaved,   \* history: <<symbol, rank>> of the top 20 last saved, in order
    prior        \* history: lastSaved as it was when this run started

vars == <<TICKERS, file, market, pc, i, hist, results, skipped, top20,
          prev_ranks, output, lastSaved, prior>>

\* ---------------------------------------------------------- provider worlds
\* Any answer for any symbol: an exception, an empty frame, a frame one row
\* short, and frames scoring 50.00 (50 % over three months, 0 % over six and
\* twelve) and 60.00.
FreeAnswers ==
    {Raise(ERR_CAP + 1), Flat(0, 0, 0), Flat(DAYS_12M + 4, 150, 100),
     Frame(DAYS_12M + 5, 150, 100, 150, 150, 150, FALSE, {}),
     Flat(DAYS_12M + 6, 120, 100)}

\* Histories around every decision of compute_momentum: every length up to
\* MaxDays, every combination of reference prices (0 included) at the lengths
\* that pass, NaN rows at and off the reference rows, and exceptions.
RefPrices == {0, 50, 100, 150}
PassLengths == {DAYS_12M + 5, DAYS_12M + 6, MaxDays}

RichAnswers ==
    {Raise(len) : len \in {0, 1, ERR_CAP - 1, ERR_CAP, ERR_CAP + 1}}
    \cup {Flat(n, now, 100) : n \in 0..MaxDays, now \in {110, 150}}
    \cup {Cycle(n) : n \in 0..MaxDays}
    \cup {Flat(n, 0, 0) : n \in {1, DAYS_12M, DAYS_12M + 4}}
    \cup {Frame(n, now, p3, p6, p12, 70, FALSE, {}) :
             n \in PassLengths, now \in {0, 100, 150},
             p3 \in RefPrices, p6 \in RefPrices, p12 \in RefPrices}
    \cup UNION {{Frame(n, 150, 100, 100, 100, 100, cyc, nan) :
                    cyc \in BOOLEAN,
                    nan \in {{n}, {n - DAYS_3M}, {n - DAYS_6M}, {n - DAYS_12M},
                             {1}, {1, 2}, 1..n}} : n \in PassLengths}

\* Six worlds of a wide universe, one answer per symbol in each: scores
\* rising with the listing order, falling, all equal, equal in groups, the
\* same with failures in front, and every other symbol failing.
WideAnswer(k, s) ==
    CASE k = 1 -> Flat(DAYS_12M + 5, 100 + s, 100)
      [] k = 2 -> Flat(DAYS_12M + 5, 150 - s, 100)
      [] k = 3 -> Flat(DAYS_12M + 5, 150, 100)
      [] k = 4 -> Flat(DAYS_12M + 5, 100 + 10 * (s % 3), 100)
      [] k = 5 -> IF s = 1 THEN Raise(ERR_CAP)
                  ELSE IF s = 2 THEN Flat(0, 0, 0)
                  ELSE IF s = 3 THEN Flat(DAYS_12M + 4, 150, 100)
                  ELSE Flat(DAYS_12M + 5, 100 + 10 * (s % 2), 100)
      [] OTHER -> IF s % 2 = 0 THEN Flat(DAYS_12M + 5, 100 + s, 100)
                  ELSE Raise(1)

WideMarkets == {<<"wide", k>> : k \in 1..6}

Answers(m, symbol) ==
    IF m[1] = "free" THEN FreeAnswers
    ELSE IF m[1] = "rich" THEN RichAnswers
    ELSE {WideAnswer(m[2], symbol)}

\* ------------------------------------------------------------------ actions
InitWith(u) ==
    /\ TICKERS = Dedup(RawTickers(u))
    /\ file \in {[kind |-> Missing, obj |-> <<>>], [kind |-> Corrupt, obj |-> <<>>]}
    /\ market = <<"none", 0>>
    /\ pc = "idle"
    /\ i = 0
    /\ hist = Unbound
    /\ results = <<>>
    /\ skipped = <<>>
    /\ top20 = <<>>
    /\ prev_ranks = <<>>
    /\ output = None
    /\ lastSaved = <<>>
    /\ prior = <<>>

\* main() starts: lines 177-192
StartRun(markets) ==
    /\ pc \in {"idle", "done", "aborted"}
    /\ \E m \in markets : market' = m
    /\ pc' = "screen"
    /\ i' = 0
    /\ hist' = Unbound
    /\ results' = <<>>
    /\ skipped' = <<>>
    /\ top20' = <<>>
    /\ prev_ranks' = <<>>
    /\ output' = None
    /\ prior' = lastSaved
    /\ UNCHANGED <<TICKERS, file, lastSaved>>

\* the skip entries of lines 206, 216-220 and 244
SkipNoData(name, symbol) ==
    [name |-> name, ticker |-> symbol, reason |-> <<"No price data">>,
     days_available |-> 0]

SkipShort(name, symbol, days) ==
    [name |-> name, ticker |-> symbol,
     reason |-> <<"Insufficient history", DAYS_12M + 5, days>>,
     days_available |-> days]

SkipError(name, symbol, msg) ==
    [name |-> name, ticker |-> symbol,
     reason |-> <<"Error", SubSeq(msg, 1, Min(ERR_CAP, Len(msg)))>>,
     days_available |-> 0]

\* round(m3 + m6 + m12, 2)
Compound(mom) == Round2(AddF(AddF(mom[1], mom[2]), mom[3]))

\* the results entry of lines 228-236
Result(name, symbol, prices, mom) ==
    [name |-> name, ticker |-> symbol,
     price |-> Round2(<<iloc(prices, -1), 1>>),
     mom_3m |-> Round2(mom[1]), mom_6m |-> Round2(mom[2]),
     mom_12m |-> Round2(mom[3]),
     compound_score |-> Compound(mom)]

\* one iteration of the screening loop: lines 194-247
Screen ==
    /\ pc = "screen"
    /\ i < Len(TICKERS)
    /\ LET name == TICKERS[i + 1][1]
           symbol == TICKERS[i + 1][2]
       IN  \E a \in Answers(market, symbol) :
             IF a.kind = "raise"
             THEN /\ skipped' = Append(skipped, SkipError(name, symbol, Message(a)))
                  /\ UNCHANGED <<hist, results>>
             ELSE /\ hist' = a
                  /\ IF a.rows = 0
                     THEN /\ skipped' = Append(skipped, SkipNoData(name, symbol))
                          /\ UNCHANGED results
                     ELSE LET prices == dropna(Close(a))
                              days == Len(prices)
                              mom == compute_momentum(prices)
                          IN  IF mom = None
                              THEN /\ skipped' = Append(skipped, SkipShort(name, symbol, days))
                                   /\ UNCHANGED results
                              ELSE /\ results' = Append(results, Result(name, symbol, prices, mom))
                                   /\ UNCHANGED skipped
    /\ i' = i + 1
    /\ UNCHANGED <<TICKERS, file, market, pc, top20, prev_ranks, output, lastSaved, prior>>

\* lines 254-259
Rank ==
    /\ pc = "screen"
    /\ i = Len(TICKERS)
    /\ results' = AssignRanks(SortDesc(results))
    /\ top20' = Top(results')
    /\ pc' = "attach"
    /\ UNCHANGED <<TICKERS, file, market, i, hist, skipped, prev_ranks, output, lastSaved, prior>>

\* lines 262-264; the entries of top20 are the entries of results, so the
\* first entries of results carry prev_rank too.  json.load raising ends main.
Attach ==
    /\ pc = "attach"
    /\ IF LoadRaises(file)
       THEN /\ pc' = "aborted"
            /\ UNCHANGED <<prev_ranks, top20, results>>
       ELSE /\ prev_ranks' = load_prev_ranks(file)
            /\ top20' = AttachPrev(top20, prev_ranks')
            /\ results' = top20' \o SubSeq(results, Len(top20) + 1, Len(results))
            /\ pc' = "save"
    /\ UNCHANGED <<TICKERS, file, market, i, hist, skipped, output, lastSaved, prior>>

\* line 266
Save ==
    /\ pc = "save"
    /\ file' = save_prev_ranks(file, top20)
    /\ lastSaved' = [k \in 1..Len(top20) |-> <<top20[k].ticker, top20[k].rank>>]
    /\ pc' = "report"
    /\ UNCHANGED <<TICKERS, market, i, hist, results, skipped, top20, prev_ranks, output, prior>>

\* lines 281-291 (the timestamp is left out)
Report ==
    /\ pc = "report"
    /\ output' = [total_attempted |-> Len(TICKERS),
                  stocks_screened |-> Len(results),
                  skipped_count |-> Len(skipped),
                  top20 |-> top20,
                  skipped |-> skipped]
    /\ pc' = "done"
    /\ UNCHANGED <<TICKERS, file, market, i, hist, results, skipped, top20, prev_ranks, lastSaved, prior>>

Run == Screen \/ Rank \/ Attach \/ Save \/ Report

\* The small universe, any answer for any symbol.
Init == InitWith(NumTickers)

Next == StartRun({<<"free", 0>>}) \/ Run

Spec == Init /\ [][Next]_vars

\* One instrument, every history of RichAnswers.
InitMomentum == InitWith(1)

NextMomentum == StartRun({<<"rich", 0>>}) \/ Run

SpecMomentum == InitMomentum /\ [][NextMomentum]_vars

\* The wide universe under the six worlds.
InitWide == InitWith(WideTickers)

NextWide == StartRun(WideMarkets) \/ Run

SpecWide == InitWide /\ [][NextWide]_vars

\* ------------------------------------------------------------- properties
Symbols(rs) == {rs[k].ticker : k \in 1..Len(rs)}

\* position of a symbol in the universe
UniversePos(t) == CHOOSE k \in 1..Len(TICKERS) : TICKERS[k][2] = t

InUniverseOrder(rs) ==
    \A j, k \in 1..Len(rs) : j < k => UniversePos(rs[j].ticker) < UniversePos(rs[k].ticker)

AfterAttach == pc \in {"save", "report", "done"}
AfterRank == pc \in {"attach", "save", "report", "done", "aborted"}

\* C1: the previous rank of every top-20 entry is the rank the symbol had in
\* the top 20 saved by the most recent earlier run that saved, and null
\* exactly when the symbol was not in it (or nothing was saved before); the
\* run's own save does not change it.
C1_PrevRankFromEarlierSave ==
    AfterAttach =>
        \A k \in 1..Len(top20) :
            LET t == top20[k].ticker
                was == {j \in 1..Len(prior) : prior[j][1] = t}
            IN  /\ was = {} <=> top20[k].prev_rank = NoRank
                /\ \A j \in was : top20[k].prev_rank = prior[j][2]
                /\ pc = "done" => output.top20[k].prev_rank = top20[k].prev_rank

\* C1 witness: a finished run after an earlier save, with an entry whose
\* previous rank differs from its new rank, a new entrant, and a symbol of
\* the earlier top 20 that dropped out.
C1_Witness ==
    /\ pc = "done"
    /\ prior # <<>>
    /\ \E k \in 1..Len(top20) :
          top20[k].prev_rank # NoRank /\ top20[k].prev_rank # top20[k].rank
    /\ \E k \in 1..Len(top20) : top20[k].prev_rank = NoRank
    /\ \E j \in 1..Len(prior) : prior[j][1] \notin Symbols(top20)

\* C2: with the rank-history file missing or corrupt when it is loaded, the
\* run does not abort: it goes on with an empty history, every top-20 entry
\* gets a null previous rank, and the history and the report are written.
C2_BadHistoryDegrades ==
    /\ pc # "aborted"
    /\ (pc = "save" /\ file.kind # "json") =>
          /\ prev_ranks = <<>>
          /\ \A k \in 1..Len(top20) : top20[k].prev_rank = NoRank
    /\ (pc = "done" /\ prior = <<>>) =>
          /\ file.kind = "json"
          /\ output # None

\* C3: after the save, loading yields exactly {symbol: rank} of the
\* K = min(N, 20) entries of the top 20; a symbol of the loaded history that
\* is not in the top 20 has no entry.
C3_SaveOverwrites ==
    pc \in {"report", "done"} =>
        LET m == load_prev_ranks(file) IN
        /\ ~LoadRaises(file)
        /\ Len(top20) = Min(Len(results), TOP_N)
        /\ Len(m) = Len(top20)
        /\ {m[k] : k \in 1..Len(m)} =
              {<<top20[k].ticker, top20[k].rank>> : k \in 1..Len(top20)}
        /\ Cardinality(Symbols(top20)) = Len(top20)
        /\ \A t \in Keys(prev_ranks) : t \notin Symbols(top20) => t \notin Keys(m)

\* C3 witness: more than 20 valid results, and a symbol that the loaded
\* history held at rank 3 is not in the new top 20.
C3_Witness ==
    /\ pc = "done"
    /\ Len(results) > TOP_N
    /\ \E t \in Keys(prev_ranks) : Get(prev_ranks, t) = 3 /\ t \notin Symbols(top20)

\* C4: after ranking N valid results the ranks are exactly 1..N, the result
\* at sorted position k has rank k, no rank is shared even on equal scores,
\* scores do not increase with the rank, and the top 20 is the results of
\* rank 1..min(N, 20) in rank order.
C4_DenseRanks ==
    AfterRank =>
        /\ Len(results) + Len(skipped) = Len(TICKERS)
        /\ \A k \in 1..Len(results) : results[k].rank = k
        /\ {results[k].rank : k \in 1..Len(results)} = 1..Len(results)
        /\ \A j, k \in 1..Len(results) :
              j # k => results[j].rank # results[k].rank
        /\ \A j, k \in 1..Len(results) :
              results[j].rank < results[k].rank
                  => results[j].compound_score >= results[k].compound_score
        /\ Len(top20) = Min(Len(results), TOP_N)
        /\ \A k \in 1..Len(top20) :
              top20[k].rank = k /\ top20[k].ticker = results[k].ticker
        /\ pc = "done" => output.top20 = top20

\* C4 witness: more than 20 valid results with equal scores among them, one
\* side of a tie inside the top 20 and the other outside.
C4_Witness ==
    /\ pc = "done"
    /\ Len(results) > TOP_N
    /\ results[TOP_N].compound_score = results[TOP_N + 1].compound_score
    /\ results[1].compound_score > results[TOP_N].compound_score

\* C5: of two valid results with identical compound scores, the one earlier
\* in universe order has the lower rank number.
C5_StableRanking ==
    AfterRank =>
        \A j, k \in 1..Len(results) :
            (/\ results[j].compound_score = results[k].compound_score
             /\ UniversePos(results[j].ticker) < UniversePos(results[k].ticker))
                => results[j].rank < results[k].rank

\* C5 witness: two instruments scoring 50.00 have ranks 1 and 2 in universe
\* order.
C5_Witness ==
    /\ pc = "done"
    /\ Len(results) = 2
    /\ results[1].compound_score = 5000 /\ results[1].rank = 1
    /\ results[2].compound_score = 5000 /\ results[2].rank = 2
    /\ UniversePos(results[1].ticker) < UniversePos(results[2].ticker)

\* C7: the per-instrument failures are not fatal.  The loop takes the
\* instruments once each in universe order: after i iterations the first i
\* symbols are each in exactly one of results and skipped, both lists are in
\* universe order until the sort, a run ends early only in the history load
\* after the loop, and the report's total is the sum of its two counts.
C7_ScreeningPartition ==
    /\ pc # "idle" =>
          /\ Symbols(results) \cup Symbols(skipped) = {TICKERS[k][2] : k \in 1..i}
          /\ Symbols(results) \cap Symbols(skipped) = {}
          /\ Len(results) + Len(skipped) = i
          /\ Cardinality(Symbols(results)) = Len(results)
          /\ Cardinality(Symbols(skipped)) = Len(skipped)
          /\ InUniverseOrder(skipped)
    /\ pc = "screen" => InUniverseOrder(results)
    /\ pc \notin {"idle", "screen"} => i = Len(TICKERS)
    /\ pc = "aborted" => LoadRaises(file)
    /\ pc = "done" =>
          /\ output.total_attempted = output.stocks_screened + output.skipped_count
          /\ output.total_attempted = Len(TICKERS)
          /\ output.stocks_screened = Len(results)
          /\ output.skipped = skipped

\* C7 witness: a finished run in which an exception, an empty frame and a
\* valid history all occurred.
C7_Witness ==
    /\ pc = "done"
    /\ Len(results) >= 1
    /\ \E k \in 1..Len(skipped) : skipped[k].reason[1] = "Error"
    /\ \E k \in 1..Len(skipped) : skipped[k].reason[1] = "No price data"

\* The instrument of the one-instrument universe was answered with a frame
\* (Answered), one that is not empty (Screened); Cleaned is its series
\* without the missing values, which main hands to compute_momentum when the
\* frame is not empty.
Answered == i = 1 /\ hist.kind = "frame"
Screened == Answered /\ hist.rows > 0
Cleaned == dropna(Close(hist))
Windows == {65, 130, 260}

\* x is the fraction (now / past - 1) * 100
IsReturn(x, now, past) == x[2] > 0 /\ x[1] * past = (now - past) * 100 * x[2]

\* c hundredths is x rounded to two decimals
IsRounded(c, x) == 2 * Abs(c * x[2] - 100 * x[1]) <= x[2]

\* C6: a series of fewer than 265 observations always gets the
\* insufficient-data signal from compute_momentum, whatever its prices, and
\* the instrument is skipped and not among the results; when the screener
\* has called compute_momentum (the frame has rows), the skip carries the
\* insufficient-history reason with 265 and the observed count.
C6_ShortSeriesSkipped ==
    Answered =>
        /\ Len(Close(hist)) < 265 => compute_momentum(Close(hist)) = None
        /\ Len(Cleaned) < 265 =>
              /\ compute_momentum(Cleaned) = None
              /\ results = <<>>
              /\ Len(skipped) = 1
              /\ skipped[1].ticker = TICKERS[1][2]
              /\ Screened =>
                    /\ skipped[1].reason = <<"Insufficient history", 265, Len(Cleaned)>>
                    /\ skipped[1].days_available = Len(Cleaned)

\* C6 witness: the series [100] x 259 + [110] was screened and skipped.
C6_Witness ==
    /\ pc = "done"
    /\ hist = Flat(260, 110, 100)
    /\ skipped[1].reason = <<"Insufficient history", 265, 260>>

\* C8: for a series of n >= 265 observations with non-zero prices at the
\* offsets n-1-65, n-1-130, n-1-260, compute_momentum returns the three
\* returns (current / past - 1) * 100, current being the last observation,
\* and the compound score is their sum rounded to two decimals; 265 points
\* with the three references at 100 and the latest at 150 give three returns
\* of 50.0 and a compound score of 150.0.
C8_ReturnsAndCompound ==
    Screened =>
        LET prices == Cleaned
            n == Len(prices)
            now == prices[n]
            past(w) == prices[n - w]
        IN  (n >= 265 /\ \A w \in Windows : past(w) # 0) =>
              LET mom == compute_momentum(prices)
                  sum == AddF(AddF(Frac((now - past(65)) * 100, past(65)),
                                   Frac((now - past(130)) * 100, past(130))),
                              Frac((now - past(260)) * 100, past(260)))
              IN  /\ mom # None
                  /\ IsReturn(mom[1], now, past(65))
                  /\ IsReturn(mom[2], now, past(130))
                  /\ IsReturn(mom[3], now, past(260))
                  /\ Len(results) = 1 /\ skipped = <<>>
                  /\ IsRounded(results[1].compound_score, sum)
                  /\ IsRounded(results[1].mom_3m, mom[1])
                  /\ IsRounded(results[1].mom_6m, mom[2])
                  /\ IsRounded(results[1].mom_12m, mom[3])
                  /\ hist = Flat(265, 150, 100) =>
                        /\ results[1].mom_3m = 5000
                        /\ results[1].mom_6m = 5000
                        /\ results[1].mom_12m = 5000
                        /\ results[1].compound_score = 15000

\* C8 witness: the 265-point series of the scenario was screened and scored
\* 150.0.
C8_Witness ==
    /\ pc = "done"
    /\ hist = Flat(265, 150, 100)
    /\ Len(results) = 1
    /\ results[1].compound_score = 15000

\* C9: for a series of n >= 265 observations, a reference price of any one
\* window that is zero or missing makes compute_momentum return the
\* insufficient-data signal, even when the other windows are computable; the
\* instrument is skipped and is not among the results.
C9_AllOrNothing ==
    Screened =>
        /\ LET raw == Close(hist)
               n == Len(raw)
           IN  (n >= 265 /\ \E w \in Windows : raw[n - w] \in {0, NaN})
                  => compute_momentum(raw) = None
        /\ LET prices == Cleaned
               n == Len(prices)
           IN  (n >= 265 /\ \E w \in Windows : prices[n - w] \in {0, NaN}) =>
                  /\ compute_momentum(prices) = None
                  /\ results = <<>>
                  /\ Len(skipped) = 1
                  /\ skipped[1].ticker = TICKERS[1][2]

\* C9 witness: only the six-month reference is zero, and the instrument was
\* skipped with 265 observations.
C9_Witness ==
    /\ pc = "done"
    /\ hist = Frame(265, 150, 100, 0, 100, 70, FALSE, {})
    /\ Len(skipped) = 1
    /\ skipped[1].days_available = 265

\* C10: whenever the length precondition passes, the reference index
\* n - 1 - w of each window is at least 4, so the clamp max(0, .) changes
\* nothing and no computation uses index 0 as a reference.
C10_ClampNeverTaken ==
    Screened =>
        \A n \in {Len(Close(hist)), Len(Cleaned)} :
            ~TooShort(n) =>
                \A w \in Windows :
                    /\ RefIdx(n, w) = n - 1 - w
                    /\ RefIdx(n, w) >= 4

\* C10 witness: a valid result from a series of exactly 265 observations,
\* whose twelve-month reference index is 4.
C10_Witness ==
    /\ pc = "done"
    /\ Screened
    /\ Len(Cleaned) = 265
    /\ Len(results) = 1
    /\ RefIdx(Len(Cleaned), 260) = 4

=============================================================================
